---- MODULE Spec2Model ----
(***************************************************************************)
(* Model of odoo_sync: SyncOdooContactsCronJob (cron.py) and the           *)
(* OdooContact table (models.py).  One run of do() is a sequence of steps: *)
(* configuration check and login request, handling of the login response   *)
(* and fetch request, handling of the fetch response, then one step per    *)
(* fetched record, then the completion summary.                            *)
(***************************************************************************)
EXTENDS Integers, Sequences, FiniteSets, TLC

VARIABLES
    pc,              \* position of the current run of do()
    settings,        \* the four ODOO_* settings read by the current run
    parsed_response, \* do(): result of the login _make_odoo_request
    uid,             \* do(): uid taken from the login result
    contacts_data,   \* do(): the list being reconciled
    idx,             \* do(): position of the for loop in contacts_data
    synced_count,    \* do(): rows created by this run
    updated_count,   \* do(): rows updated by this run
    store,           \* the OdooContact table: a set of rows
    log,             \* logger calls of the current run, in order
    requests,        \* requests.post calls of the current run, in order
    responses,       \* what each of those calls came back with, in order
    storeAtStart,    \* history: the table when the current run started
    seenIds,         \* history: remote ids that came in a fetched list
    writtenIds,      \* history: remote ids an update_or_create succeeded for
    lastRun,         \* history: what the previous run fetched, if it completed
    now,             \* the clock read by auto_now when a row is saved
    rival            \* a second invocation of do() overlapping the first

vars == <<pc, settings, parsed_response, uid, contacts_data, idx,
          synced_count, updated_count, store, log, requests,
          responses, storeAtStart, seenIds, writtenIds, lastRun, now, rival>>

(***************************************************************************)
(* JSON / Python values, tagged by type so that None, False, 0 and ""      *)
(* stay different values.                                                  *)
(***************************************************************************)
JNull == [k |-> "null"]
JBool(b) == [k |-> "bool", b |-> b]
JInt(n) == [k |-> "int", n |-> n]
JStr(s) == [k |-> "str", s |-> s]
JList(l) == [k |-> "list", items |-> l]
\* a key that is not in a dict
Absent == [k |-> "absent"]

\* Python truth value of a value (bool(v))
Truthy(v) ==
    CASE v.k = "null" -> FALSE
      [] v.k = "bool" -> v.b
      [] v.k = "int" -> v.n # 0
      [] v.k = "str" -> v.s # ""
      [] v.k = "list" -> Len(v.items) > 0
      [] OTHER -> FALSE

\* dict.get(key): None when the key is absent
Get(d, key) == IF d[key] = Absent THEN JNull ELSE d[key]

(***************************************************************************)
(* Bounds and input domains                                                *)
(***************************************************************************)
\* longest list a search_read response carries
MaxBatch == 2

\* the clock stops at this reading
MaxClock == 3

\* remote ids (res.partner ids)
Ids == {1, 2}

\* values a setting can have: unset (getattr default None), empty, set
SettingValues == {JNull, JStr(""), JStr("set")}
SettingNames == {"ODOO_URL", "ODOO_DB", "ODOO_USERNAME", "ODOO_PASSWORD"}
Configs == [SettingNames -> SettingValues]

\* HTTP statuses of a response
Statuses == {200, 500}

(***************************************************************************)
(* Remote records (dicts of a search_read result)                          *)
(***************************************************************************)
Contact(id, name, email, phone, street, city, zip, country_id) ==
    [id |-> id, name |-> name, email |-> email, phone |-> phone,
     street |-> street, city |-> city, zip |-> zip, country_id |-> country_id]

\* every field set, the country relation a pair [id, display name]
FullContact(id) ==
    Contact(id, JStr("Ann"), JStr("ann@x.org"), JStr("111"), JStr("1 Main St"),
            JStr("Rome"), JStr("00100"), JList(<<JInt(10), JStr("Italy")>>))
\* explicit null email, some keys missing, the country relation false
ClearingContact(id) ==
    Contact(id, JStr("Bob"), JNull, JStr("222"), Absent, Absent, Absent,
            JBool(FALSE))
\* null name, nulls among the other fields, the country relation null
NamelessContact(id) ==
    Contact(id, JNull, JStr("cy@x.org"), JNull, JStr("3 High St"), JNull,
            JStr("33333"), JNull)
\* only the id
BareContact(id) ==
    Contact(id, Absent, Absent, Absent, Absent, Absent, Absent, Absent)

\* a list element that is no JSON object
NotADict == JInt(7)

\* contact_data has the dict interface (.get, [key])
IsDict(contact_data) == "id" \in DOMAIN contact_data

\* elements of a search_read result: every shape under the first id, two
\* shapes under the other ids, one record that lacks the id key, and one
\* element that is no record
RemoteContacts ==
    {FullContact(JInt(1)), ClearingContact(JInt(1)),
     NamelessContact(JInt(1)), BareContact(JInt(1))}
    \cup UNION {{FullContact(JInt(i)), ClearingContact(JInt(i))} : i \in Ids \ {1}}
    \cup {FullContact(Absent), NotADict}

\* lists of at most n records
RECURSIVE ListsUpTo(_, _)
ListsUpTo(S, n) ==
    IF n = 0 THEN {<<>>}
    ELSE LET shorter == ListsUpTo(S, n - 1)
         IN shorter \cup {Append(l, x) : l \in {m \in shorter : Len(m) = n - 1},
                                         x \in S}

ContactLists == ListsUpTo(RemoteContacts, MaxBatch)

(***************************************************************************)
(* What requests.post can do with a request                                *)
(***************************************************************************)
\* response bodies: empty text, text that is not JSON, a JSON-RPC success
\* envelope {"result": ...}, a JSON-RPC error envelope {"error": {...}}
EmptyBody == [b |-> "empty"]
MalformedBody == [b |-> "malformed"]
ResultBody(r) == [b |-> "result", result |-> r]
ErrorBody(m, d) == [b |-> "error", message |-> m, data |-> d]

Bodies(results) ==
    {EmptyBody, MalformedBody, ErrorBody(JStr("Access Denied"), JStr("trace"))}
    \cup {ResultBody(r) : r \in results}

TimeoutOutcome == [t |-> "timeout"]
ConnectionOutcome == [t |-> "connection"]
HttpOutcome(st, body) == [t |-> "http", body |-> body, status |-> st]

Outcomes(results) ==
    {TimeoutOutcome, ConnectionOutcome}
    \cup {HttpOutcome(st, body) : st \in Statuses, body \in Bodies(results)}

\* results of the login call: a uid, and the falsy values False, None, 0, ""
LoginResults == {JInt(123), JBool(FALSE), JNull, JInt(0), JStr("")}
\* results of the search_read call: a list of records, or not a list
FetchResults == {JList(l) : l \in ContactLists} \cup {JNull}

(***************************************************************************)
(* Logging                                                                 *)
(***************************************************************************)
LogEntry(level, event, detail) ==
    [level |-> level, event |-> event, detail |-> detail]
Info(event, detail) == LogEntry("info", event, detail)
Error(event, detail) == LogEntry("error", event, detail)

(***************************************************************************)
(* jsonrpcclient.parse_json and _make_odoo_request                         *)
(***************************************************************************)
None == [type |-> "None"]
Ok(result) == [type |-> "Ok", result |-> result]
RpcError(message, data) == [type |-> "Error", message |-> message, data |-> data]
Raised == [type |-> "raised"]

\* variant: text that is no envelope comes back as an Error, not an exception
parse_json_without_exception(body) ==
    CASE body.b = "result" -> Ok(body.result)
      [] body.b = "error" -> RpcError(body.message, body.data)
      [] OTHER -> RpcError(JStr("parse error"), JNull)

\* parse_json(text): Ok for a success envelope, Error for an error
\* envelope, an exception for anything else
parse_json(body) ==
    CASE body.b = "result" -> Ok(body.result)
      [] body.b = "error" -> RpcError(body.message, body.data)
      [] OTHER -> Raised

\* response.raise_for_status() raises HTTPError
RaisesForStatus(status) == status >= 400

\* variant: the HTTPError branch never looks at the body of the response
_make_odoo_request_without_error_body(outcome) ==
    CASE outcome.t = "timeout" ->
            [ret |-> None, logs |-> <<Error("timeout", JNull)>>]
      [] outcome.t = "connection" ->
            [ret |-> None, logs |-> <<Error("request_exception", JNull)>>]
      [] OTHER ->
            IF ~RaisesForStatus(outcome.status)
            THEN LET parsed == parse_json(outcome.body)
                 IN IF parsed = Raised
                    THEN [ret |-> None,
                          logs |-> <<Error("processing_error", JNull)>>]
                    ELSE [ret |-> parsed, logs |-> <<>>]
            ELSE [ret |-> None,
                  logs |-> <<Error("http_error", JInt(outcome.status))>>]

\* _make_odoo_request from the requests.post call on: the value returned
\* and the log entries written
_make_odoo_request(outcome) ==
    CASE outcome.t = "timeout" ->
            [ret |-> None, logs |-> <<Error("timeout", JNull)>>]
      [] outcome.t = "connection" ->
            [ret |-> None, logs |-> <<Error("request_exception", JNull)>>]
      [] OTHER ->
            IF ~RaisesForStatus(outcome.status)
            THEN LET parsed == parse_json(outcome.body)
                 IN IF parsed = Raised
                    THEN [ret |-> None,
                          logs |-> <<Error("processing_error", JNull)>>]
                    ELSE [ret |-> parsed, logs |-> <<>>]
            ELSE LET httpLog == Error("http_error", JInt(outcome.status))
                 IN IF outcome.body = EmptyBody
                    THEN [ret |-> None, logs |-> <<httpLog>>]
                    ELSE LET parsed == parse_json(outcome.body)
                         IN IF parsed = Raised
                            THEN [ret |-> None,
                                  logs |-> <<httpLog,
                                             Error("unparsable_error_body", JNull)>>]
                            ELSE [ret |-> parsed, logs |-> <<httpLog>>]

(***************************************************************************)
(* The OdooContact table and the field mapping of do()                     *)
(***************************************************************************)
\* the fields do() maps, and those among them its filter always keeps
MappedFields == {"name", "email", "phone", "street", "city", "zip_code", "country"}
ClearableFields == {"email", "phone", "street", "city", "zip_code", "country"}

\* value of a column that a create is given no value for
FieldDefault(f) == IF f = "name" THEN JStr("") ELSE JNull

\* variant: the first element of the relation is taken
country_name_first_element(contact_data) ==
    LET c == Get(contact_data, "country_id")
    IN IF Truthy(c) /\ c.k = "list" /\ Len(c.items) > 1
       THEN c.items[1]
       ELSE JNull

\* country_name of do(): the display name of a [id, name] relation
country_name(contact_data) ==
    LET c == Get(contact_data, "country_id")
    IN IF Truthy(c) /\ c.k = "list" /\ Len(c.items) > 1
       THEN c.items[2]
       ELSE JNull

\* the defaults dict before the filter
mapped_defaults(contact_data) ==
    [name |-> Get(contact_data, "name"),
     email |-> Get(contact_data, "email"),
     phone |-> Get(contact_data, "phone"),
     street |-> Get(contact_data, "street"),
     city |-> Get(contact_data, "city"),
     zip_code |-> Get(contact_data, "zip"),
     country |-> country_name(contact_data)]

\* variant: the filter drops every None value
kept_keys_dropping_none(d) == {f \in DOMAIN d : d[f] # JNull}

\* variant: the filter keeps every key
kept_keys_keeping_all(d) == DOMAIN d

\* the keys the filter keeps: value not None, or key among the clearable
kept_keys(d) == {f \in DOMAIN d : d[f] # JNull \/ f \in ClearableFields}

\* the defaults dict passed to update_or_create
defaults_of(contact_data) ==
    LET d == mapped_defaults(contact_data)
    IN [f \in kept_keys(d) |-> d[f]]

\* variant: the lookup by odoo_id never finds a row
RowsWithId_never_found(table, odoo_id) == {}

RowsWithId(table, odoo_id) == {r \in table : r.odoo_id = odoo_id}

\* the row a create saves at time t
NewRow(odoo_id, defaults, t) ==
    [f \in {"odoo_id", "last_synced"} \cup MappedFields |->
        IF f = "odoo_id" THEN odoo_id
        ELSE IF f = "last_synced" THEN t
        ELSE IF f \in DOMAIN defaults THEN defaults[f] ELSE FieldDefault(f)]

\* variant: last_synced is set when the row is created only (auto_now_add)
UpdatedRow_keeping_last_synced(row, defaults, t) ==
    [f \in DOMAIN row |-> IF f \in DOMAIN defaults THEN defaults[f] ELSE row[f]]

\* variant: an update leaves a column alone when the new value is None
UpdatedRow_skipping_none(row, defaults, t) ==
    [f \in DOMAIN row |->
        IF f = "last_synced" THEN t
        ELSE IF f \in DOMAIN defaults /\ defaults[f] # JNull THEN defaults[f]
        ELSE row[f]]

\* the row an update saves at time t: auto_now refreshes last_synced
UpdatedRow(row, defaults, t) ==
    [f \in DOMAIN row |->
        IF f = "last_synced" THEN t
        ELSE IF f \in DOMAIN defaults THEN defaults[f] ELSE row[f]]

\* variant: objects.create in place of update_or_create
always_create(table, odoo_id, defaults, t) ==
    [table |-> table \cup {NewRow(odoo_id, defaults, t)}, created |-> TRUE]

\* variant: the table is rewritten to hold only the row just written
update_or_create_replacing_table(table, odoo_id, defaults, t) ==
    LET found == RowsWithId(table, odoo_id)
    IN IF found = {}
       THEN [table |-> {NewRow(odoo_id, defaults, t)}, created |-> TRUE]
       ELSE [table |-> {UpdatedRow(r, defaults, t) : r \in found},
             created |-> FALSE]

\* OdooContact.objects.update_or_create(odoo_id=..., defaults=...):
\* the table afterwards and the created flag
update_or_create(table, odoo_id, defaults, t) ==
    LET found == RowsWithId(table, odoo_id)
    IN IF found = {}
       THEN [table |-> table \cup {NewRow(odoo_id, defaults, t)},
             created |-> TRUE]
       ELSE [table |-> (table \ found)
                        \cup {UpdatedRow(r, defaults, t) : r \in found},
             created |-> FALSE]

(***************************************************************************)
(* Initial state: no run in progress, empty table                          *)
(***************************************************************************)
NoRun == [k |-> "norun"]

\* the second invocation before it has fetched anything
RivalIdle ==
    [pc |-> "idle", contacts_data |-> <<>>, idx |-> 1, synced_count |-> 0,
     updated_count |-> 0]

Init ==
    /\ pc = "idle"
    /\ settings = [n \in SettingNames |-> JNull]
    /\ parsed_response = None
    /\ uid = JNull
    /\ contacts_data = <<>>
    /\ idx = 1
    /\ synced_count = 0
    /\ updated_count = 0
    /\ store = {}
    /\ log = <<>>
    /\ requests = <<>>
    /\ responses = <<>>
    /\ storeAtStart = {}
    /\ seenIds = {}
    /\ writtenIds = {}
    /\ lastRun = NoRun
    /\ now = 0
    /\ rival = RivalIdle

(***************************************************************************)
(* do()                                                                    *)
(***************************************************************************)
LoginRequest == [rpc |-> "login", service |-> "common", uid |-> JNull]
\* variant: the request carries one fixed uid
FetchRequest_fixed_uid(u) == [rpc |-> "call", service |-> "object", uid |-> JInt(123)]

FetchRequest(u) == [rpc |-> "call", service |-> "object", uid |-> u]

\* variant: any() in place of all()
AnyConfigured(cfg) == \E n \in SettingNames : Truthy(cfg[n])

\* all([ODOO_URL, ODOO_DB, ODOO_USERNAME, ODOO_PASSWORD])
AllConfigured(cfg) == \A n \in SettingNames : Truthy(cfg[n])

\* variant: no isinstance(uid, bool) test, every falsy uid logged alike
login_outcome_without_bool_test(ret) ==
    CASE ret = None ->
            [pc |-> "failed", uid |-> JNull, logs |-> <<>>]
      [] ret.type = "Ok" ->
            IF ~Truthy(ret.result)
            THEN [pc |-> "failed", uid |-> ret.result,
                  logs |-> <<Error("auth_falsy_uid", ret.result)>>]
            ELSE [pc |-> "fetching", uid |-> ret.result,
                  logs |-> <<Info("auth_ok", ret.result)>>]
      [] OTHER ->
            [pc |-> "failed", uid |-> JNull,
             logs |-> <<Error("auth_error", JList(<<ret.message, ret.data>>))>>]

\* do() lines 104-121: what do() makes of the login result: where it goes,
\* the uid it holds and what it logs
login_outcome(ret) ==
    CASE ret = None ->
            [pc |-> "failed", uid |-> JNull, logs |-> <<>>]
      [] ret.type = "Ok" ->
            IF ~Truthy(ret.result) /\ ret.result.k = "bool"
            THEN [pc |-> "failed", uid |-> ret.result,
                  logs |-> <<Error("auth_false_uid", ret.result)>>]
            ELSE IF ~Truthy(ret.result)
            THEN [pc |-> "failed", uid |-> ret.result,
                  logs |-> <<Error("auth_falsy_uid", ret.result)>>]
            ELSE [pc |-> "fetching", uid |-> ret.result,
                  logs |-> <<Info("auth_ok", ret.result)>>]
      [] OTHER ->
            [pc |-> "failed", uid |-> JNull,
             logs |-> <<Error("auth_error", JList(<<ret.message, ret.data>>))>>]

\* variant: an empty result is taken for a failed fetch
fetch_outcome_empty_fails(ret) ==
    CASE ret = None ->
            [pc |-> "failed", data |-> <<>>, logs |-> <<>>]
      [] ret.type = "Ok" ->
            IF ret.result.k # "list"
            THEN [pc |-> "crashed", data |-> <<>>, logs |-> <<>>]
            ELSE IF ~Truthy(ret.result)
            THEN [pc |-> "failed", data |-> <<>>,
                  logs |-> <<Error("fetch_error", JList(<<JNull, JNull>>))>>]
            ELSE [pc |-> "reconciling", data |-> ret.result.items,
                  logs |-> <<Info("fetch_ok", JInt(Len(ret.result.items)))>>]
      [] OTHER ->
            [pc |-> "failed", data |-> <<>>,
             logs |-> <<Error("fetch_error", JList(<<ret.message, ret.data>>))>>]

\* variant: the return after a failed fetch is missing
fetch_outcome_without_return(ret) ==
    CASE ret = None ->
            [pc |-> "reconciling", data |-> <<>>, logs |-> <<>>]
      [] ret.type = "Ok" ->
            IF ret.result.k = "list"
            THEN [pc |-> "reconciling", data |-> ret.result.items,
                  logs |-> <<Info("fetch_ok", JInt(Len(ret.result.items)))>>]
            ELSE [pc |-> "crashed", data |-> <<>>, logs |-> <<>>]
      [] OTHER ->
            [pc |-> "reconciling", data |-> <<>>,
             logs |-> <<Error("fetch_error", JList(<<ret.message, ret.data>>))>>]

\* do() lines 139-147: what do() makes of the search_read result
fetch_outcome(ret) ==
    CASE ret = None ->
            [pc |-> "failed", data |-> <<>>, logs |-> <<>>]
      [] ret.type = "Ok" ->
            IF ret.result.k = "list"
            THEN [pc |-> "reconciling", data |-> ret.result.items,
                  logs |-> <<Info("fetch_ok", JInt(Len(ret.result.items)))>>]
            ELSE \* len(contacts_data) raises TypeError, nothing catches it
                 [pc |-> "crashed", data |-> <<>>, logs |-> <<>>]
      [] OTHER ->
            [pc |-> "failed", data |-> <<>>,
             logs |-> <<Error("fetch_error", JList(<<ret.message, ret.data>>))>>]

\* variant: the created counter moves on an update
synced_after_on_update(count, created) == IF created THEN count ELSE count + 1

\* variants: a counter that moves on every write, one that never moves
synced_after_every_write(count, created) == count + 1
updated_after_never(count, created) == count

\* do() lines 177-180: the two counters after an update_or_create
synced_after(count, created) == IF created THEN count + 1 ELSE count
updated_after(count, created) == IF created THEN count ELSE count + 1

\* the remote ids of a fetched list
IdsOf(data) ==
    {data[i].id.n :
        i \in {j \in 1..Len(data) : IsDict(data[j]) /\ data[j].id # Absent}}

\* do() up to the login request: lines 79-102
StartRun(cfg, t) ==
    /\ pc = "idle"
    /\ now' = t
    /\ settings' = cfg
    /\ storeAtStart' = store
    /\ IF ~AllConfigured(cfg)
       THEN /\ log' = <<Info("start", JNull), Error("not_configured", JNull)>>
            /\ pc' = "failed"
            /\ requests' = <<>>
       ELSE /\ log' = <<Info("start", JNull)>>
            /\ pc' = "authenticating"
            /\ requests' = <<LoginRequest>>
    /\ UNCHANGED <<parsed_response, uid, contacts_data, idx, synced_count,
                   updated_count, store, responses, seenIds, writtenIds, lastRun,
                   rival>>

\* the login request returns: do() lines 102-137
LoginResponse(outcome) ==
    /\ pc = "authenticating"
    /\ responses' = Append(responses, outcome)
    /\ LET r == _make_odoo_request(outcome)
           o == login_outcome(r.ret)
       IN /\ parsed_response' = r.ret
          /\ uid' = o.uid
          /\ log' = log \o r.logs \o o.logs
          /\ pc' = o.pc
          /\ requests' = IF o.pc = "fetching"
                         THEN Append(requests, FetchRequest(o.uid))
                         ELSE requests
    /\ UNCHANGED <<settings, contacts_data, idx, synced_count, updated_count,
                   store, storeAtStart, seenIds, writtenIds, lastRun, now, rival>>

\* the search_read request returns: do() lines 137-151
FetchResponse(outcome) ==
    /\ pc = "fetching"
    /\ responses' = Append(responses, outcome)
    /\ LET r == _make_odoo_request(outcome)
           o == fetch_outcome(r.ret)
       IN /\ contacts_data' = o.data
          /\ log' = log \o r.logs \o o.logs
          /\ pc' = o.pc
          /\ seenIds' = seenIds \cup IdsOf(o.data)
    /\ UNCHANGED <<settings, parsed_response, uid, idx, synced_count,
                   updated_count, store, requests, storeAtStart, writtenIds,
                   lastRun, now, rival>>

\* variant: the write is not wrapped in try/except, a failing write ends do()
ReconcileStep_without_try(dbError) ==
    /\ pc = "reconciling"
    /\ idx <= Len(contacts_data)
    /\ LET contact_data == contacts_data[idx]
       IN IF ~IsDict(contact_data) \/ contact_data.id = Absent \/ dbError
          THEN /\ pc' = "crashed"
               /\ UNCHANGED <<idx, log, store, synced_count, updated_count,
                              writtenIds>>
          ELSE LET res == update_or_create(store, contact_data.id.n,
                                           defaults_of(contact_data), now)
               IN /\ store' = res.table
                  /\ synced_count' = synced_after(synced_count, res.created)
                  /\ updated_count' = updated_after(updated_count, res.created)
                  /\ writtenIds' = writtenIds \cup {contact_data.id.n}
                  /\ idx' = idx + 1
                  /\ UNCHANGED <<pc, log>>
    /\ UNCHANGED <<settings, parsed_response, uid, contacts_data, requests,
                   responses, storeAtStart, seenIds, lastRun, now, rival>>

\* one iteration of the for loop: do() lines 152-182.  dbError: the
\* database raises inside update_or_create.  An element without the dict
\* interface raises before the try.
ReconcileStep(dbError) ==
    /\ pc = "reconciling"
    /\ idx <= Len(contacts_data)
    /\ LET contact_data == contacts_data[idx]
       IN IF ~IsDict(contact_data)
          THEN \* contact_data.get at line 154 raises outside the try
               /\ pc' = "crashed"
               /\ UNCHANGED <<idx, log, store, synced_count, updated_count,
                              writtenIds>>
          ELSE IF contact_data.id = Absent \/ dbError
          THEN /\ log' = Append(log, Error("record_error", Get(contact_data, "id")))
               /\ idx' = idx + 1
               /\ UNCHANGED <<pc, store, synced_count, updated_count, writtenIds>>
          ELSE LET res == update_or_create(store, contact_data.id.n,
                                           defaults_of(contact_data), now)
               IN /\ store' = res.table
                  /\ synced_count' = synced_after(synced_count, res.created)
                  /\ updated_count' = updated_after(updated_count, res.created)
                  /\ writtenIds' = writtenIds \cup {contact_data.id.n}
                  /\ idx' = idx + 1
                  /\ UNCHANGED <<pc, log>>
    /\ UNCHANGED <<settings, parsed_response, uid, contacts_data, requests,
                   responses, storeAtStart, seenIds, lastRun, now, rival>>

\* after the loop: do() line 184
Complete ==
    /\ pc = "reconciling"
    /\ idx > Len(contacts_data)
    /\ log' = Append(log, Info("complete",
                               JList(<<JInt(synced_count), JInt(updated_count)>>)))
    /\ pc' = "done"
    /\ UNCHANGED <<settings, parsed_response, uid, contacts_data, idx,
                   synced_count, updated_count, store, requests, responses,
                   storeAtStart, seenIds, writtenIds, lastRun, now, rival>>

\* number of record failures logged by the current run
RecordErrors == Cardinality({i \in 1..Len(log) : log[i].event = "record_error"})

\* do() has returned (or raised): its locals are gone, the table stays.
\* With remember, the history keeps what a completed run fetched and how
\* many of its records failed.
Return(remember) ==
    /\ pc \in {"done", "failed", "crashed"}
    /\ pc' = "idle"
    /\ lastRun' = IF remember /\ pc = "done"
                  THEN [data |-> contacts_data, errors |-> RecordErrors]
                  ELSE NoRun
    /\ settings' = [n \in SettingNames |-> JNull]
    /\ parsed_response' = None
    /\ uid' = JNull
    /\ contacts_data' = <<>>
    /\ idx' = 1
    /\ synced_count' = 0
    /\ updated_count' = 0
    /\ log' = <<>>
    /\ requests' = <<>>
    /\ responses' = <<>>
    /\ storeAtStart' = store
    /\ UNCHANGED <<store, seenIds, writtenIds, now, rival>>

Next ==
    \/ \E cfg \in Configs : StartRun(cfg, now)
    \/ \E outcome \in Outcomes(LoginResults) : LoginResponse(outcome)
    \/ \E outcome \in Outcomes(FetchResults) : FetchResponse(outcome)
    \/ \E dbError \in BOOLEAN : ReconcileStep(dbError)
    \/ Complete
    \/ Return(FALSE)

Spec == Init /\ [][Next]_vars

(***************************************************************************)
(* Second specification: only well-configured runs whose requests come     *)
(* back with status 200 (or a login timeout) and a database that is up,    *)
(* over fewer records; the history remembers what the previous run         *)
(* fetched.                                                                *)
(***************************************************************************)
AllSet == [n \in SettingNames |-> JStr("set")]

RerunContacts ==
    {FullContact(JInt(1)), ClearingContact(JInt(1)), NamelessContact(JInt(1)),
     FullContact(Absent)}
    \cup {FullContact(JInt(i)) : i \in Ids \ {1}}

RerunResults ==
    {JList(l) : l \in ListsUpTo(RerunContacts, MaxBatch)} \cup {JNull}

\* login results of successive runs: two different uids and a refusal
RerunLoginResults == {JInt(123), JInt(456), JBool(FALSE)}

NextRerun ==
    \/ \E cfg \in {AllSet, [AllSet EXCEPT !["ODOO_URL"] = JNull]} : StartRun(cfg, now)
    \/ \E outcome \in {HttpOutcome(200, ResultBody(r)) : r \in RerunLoginResults}
                        \cup {TimeoutOutcome} :
            LoginResponse(outcome)
    \/ \E outcome \in {HttpOutcome(200, ResultBody(r)) : r \in RerunResults} :
            FetchResponse(outcome)
    \/ ReconcileStep(FALSE)
    \/ Complete
    \/ Return(TRUE)

SpecRerun == Init /\ [][NextRerun]_vars

(***************************************************************************)
(* Notions the properties share                                            *)
(***************************************************************************)
\* some response of the current run had a status >= 400
(***************************************************************************)
(* Runs under a clock.  The specifications above do not speak about time   *)
(* and run with the clock stopped.  Here every run starts later than       *)
(* anything before it (runs of one job are RUN_EVERY_MINS apart), and time *)
(* may pass between two records of a run.                                  *)
(***************************************************************************)
ClockContacts ==
    {FullContact(JInt(i)) : i \in Ids} \cup {ClearingContact(JInt(1))}

\* time passes while the loop runs
Tick ==
    /\ pc = "reconciling"
    /\ now < MaxClock
    /\ now' = now + 1
    /\ UNCHANGED <<pc, settings, parsed_response, uid, contacts_data, idx,
                   synced_count, updated_count, store, log, requests,
                   responses, storeAtStart, seenIds, writtenIds, lastRun,
                   rival>>

NextClock ==
    \/ \E t \in (now + 1)..MaxClock : StartRun(AllSet, t)
    \/ LoginResponse(HttpOutcome(200, ResultBody(JInt(123))))
    \/ \E l \in ListsUpTo(ClockContacts, MaxBatch) :
            FetchResponse(HttpOutcome(200, ResultBody(JList(l))))
    \/ ReconcileStep(FALSE)
    \/ Tick
    \/ Complete
    \/ Return(FALSE)

SpecClock == Init /\ [][NextClock]_vars

(***************************************************************************)
(* Two overlapping invocations.  The second invocation has its own locals  *)
(* and shares the table; its login and fetch touch nothing shared and are  *)
(* folded into one step.  Each update_or_create is one step: it runs in    *)
(* transaction.atomic on a row selected for update, and a create that      *)
(* loses against the unique odoo_id falls back to the update.              *)
(***************************************************************************)
RaceContacts ==
    {FullContact(JInt(1)), ClearingContact(JInt(1)), NamelessContact(JInt(1))}

RaceLists == ListsUpTo(RaceContacts, MaxBatch)

\* the second invocation has logged in and fetched l: do() lines 78-151
RivalFetched(l) ==
    /\ rival.pc = "idle"
    /\ rival' = [RivalIdle EXCEPT !.pc = "reconciling", !.contacts_data = l]
    /\ seenIds' = seenIds \cup IdsOf(l)
    /\ UNCHANGED <<pc, settings, parsed_response, uid, contacts_data, idx,
                   synced_count, updated_count, store, log, requests,
                   responses, storeAtStart, writtenIds, lastRun, now>>

\* one iteration of the second invocation's loop: do() lines 152-182
RivalReconcileStep ==
    /\ rival.pc = "reconciling"
    /\ rival.idx <= Len(rival.contacts_data)
    /\ LET contact_data == rival.contacts_data[rival.idx]
       IN IF ~IsDict(contact_data)
          THEN /\ rival' = [rival EXCEPT !.pc = "crashed"]
               /\ UNCHANGED <<store, writtenIds>>
          ELSE IF contact_data.id = Absent
          THEN /\ rival' = [rival EXCEPT !.idx = @ + 1]
               /\ UNCHANGED <<store, writtenIds>>
          ELSE LET res == update_or_create(store, contact_data.id.n,
                                           defaults_of(contact_data), now)
               IN /\ store' = res.table
                  /\ writtenIds' = writtenIds \cup {contact_data.id.n}
                  /\ rival' = [rival EXCEPT
                         !.idx = @ + 1,
                         !.synced_count = synced_after(@, res.created),
                         !.updated_count = updated_after(@, res.created)]
    /\ UNCHANGED <<pc, settings, parsed_response, uid, contacts_data, idx,
                   synced_count, updated_count, log, requests, responses,
                   storeAtStart, seenIds, lastRun, now>>

\* the second invocation's loop is over: do() line 184
RivalComplete ==
    /\ rival.pc = "reconciling"
    /\ rival.idx > Len(rival.contacts_data)
    /\ rival' = [rival EXCEPT !.pc = "done"]
    /\ UNCHANGED <<pc, settings, parsed_response, uid, contacts_data, idx,
                   synced_count, updated_count, store, log, requests,
                   responses, storeAtStart, seenIds, writtenIds, lastRun, now>>

\* the second invocation has returned
RivalReturn ==
    /\ rival.pc \in {"done", "crashed"}
    /\ rival' = RivalIdle
    /\ UNCHANGED <<pc, settings, parsed_response, uid, contacts_data, idx,
                   synced_count, updated_count, store, log, requests,
                   responses, storeAtStart, seenIds, writtenIds, lastRun, now>>

NextRace ==
    \/ StartRun(AllSet, now)
    \/ \E r \in {JInt(123)} : LoginResponse(HttpOutcome(200, ResultBody(r)))
    \/ \E l \in RaceLists : FetchResponse(HttpOutcome(200, ResultBody(JList(l))))
    \/ ReconcileStep(FALSE)
    \/ Complete
    \/ Return(FALSE)
    \/ \E l \in RaceLists : RivalFetched(l)
    \/ RivalReconcileStep
    \/ RivalComplete
    \/ RivalReturn

SpecRace == Init /\ [][NextRace]_vars

HttpErrorSeen ==
    \E i \in 1..Len(responses) :
        responses[i].t = "http" /\ responses[i].status >= 400

\* the current run has not written to the table
NoWrites ==
    /\ store = storeAtStart
    /\ synced_count = 0
    /\ updated_count = 0

\* the rows without their timestamp
ContentOf(table) == {[f \in {"odoo_id"} \cup MappedFields |-> r[f]] : r \in table}

\* the counts in the completion summary, the last log entry of a done run
ReportedCreated == log[Len(log)].detail.items[1].n
ReportedUpdated == log[Len(log)].detail.items[2].n

\* this step is an update_or_create that succeeded for contacts_data[idx]
WriteStep ==
    /\ pc = "reconciling"
    /\ idx' = idx + 1
    /\ log' = log

\* ... for a remote id that already had a row
UpdateStep ==
    /\ WriteStep
    /\ RowsWithId(store, contacts_data[idx].id.n) # {}

\* the row of a remote id
RowOf(table, odoo_id) == CHOOSE r \in table : r.odoo_id = odoo_id

\* the key of the remote record a local field is filled from
RemoteKey(f) ==
    CASE f = "zip_code" -> "zip"
      [] f = "country" -> "country_id"
      [] OTHER -> f

\* the country a relation value stands for
CountryOf(c) ==
    IF c.k = "list" /\ Len(c.items) = 2 THEN c.items[2] ELSE JNull

\* the value a remote record carries for a local field
FetchedValue(contact_data, f) ==
    IF f = "country" THEN CountryOf(contact_data.country_id)
    ELSE Get(contact_data, RemoteKey(f))

\* some clearable field is present with an explicit null
HasExplicitNull(contact_data) ==
    \E f \in ClearableFields : contact_data[RemoteKey(f)] = JNull

(***************************************************************************)
(* C1: a response with status >= 400 to the login or to the search_read    *)
(* request aborts the run, whatever its body: in particular the run makes  *)
(* no write to the table.                                                  *)
(***************************************************************************)
C1_HttpErrorAbortsWithoutWrites ==
    HttpErrorSeen => NoWrites

(***************************************************************************)
(* C2 as stated: at the end of a run that authenticated and fetched, the   *)
(* created and updated counts of the summary add up to the number of       *)
(* fetched records.                                                        *)
(***************************************************************************)
C2_CountsSumToFetched ==
    pc = "done" => ReportedCreated + ReportedUpdated = Len(contacts_data)

(***************************************************************************)
(* C2 amended: at the end of such a run the created and updated counts of  *)
(* the summary add up to the number of fetched records less the number of  *)
(* records whose write failed.                                             *)
(***************************************************************************)
C2_CountsSumToWritten ==
    pc = "done" =>
        /\ log[Len(log)].event = "complete"
        /\ ReportedCreated + ReportedUpdated = Len(contacts_data) - RecordErrors

C2_Witness ==
    /\ pc = "done"
    /\ Len(contacts_data) = 2
    /\ RecordErrors = 1
    /\ ReportedCreated = 0
    /\ ReportedUpdated = 1

(***************************************************************************)
(* C3 as stated: from an empty table, after any runs that authenticated    *)
(* and fetched, there are as many rows as distinct remote ids in the       *)
(* fetched lists.                                                          *)
(***************************************************************************)
C3_RowsEqualSeenIds ==
    pc \in {"idle", "done"} => Cardinality(store) = Cardinality(seenIds)

(***************************************************************************)
(* C3 amended: there are as many rows as distinct remote ids for which a   *)
(* write succeeded, one row for each such id, and these ids are among      *)
(* those of the fetched lists.                                             *)
(***************************************************************************)
C3_RowsEqualWrittenIds ==
    /\ Cardinality(store) = Cardinality(writtenIds)
    /\ {r.odoo_id : r \in store} = writtenIds
    /\ pc \in {"idle", "done"} => writtenIds \subseteq seenIds

C3_Witness ==
    /\ pc = "done"
    /\ seenIds = Ids
    /\ Cardinality(store) = 1
    /\ storeAtStart = store
    /\ RecordErrors = 1

C5_NullClearsOthersFetched ==
    [][(UpdateStep /\ HasExplicitNull(contacts_data[idx])) =>
         \A f \in MappedFields :
            RowOf(store', contacts_data[idx].id.n)[f]
                = FetchedValue(contacts_data[idx], f)]_vars

(***************************************************************************)
(* C5 amended: that field becomes null and every other clearable field     *)
(* takes the fetched value; name takes the fetched value unless that is    *)
(* null or absent, and then keeps the value it had.                        *)
(***************************************************************************)
C5_NullClearsNameKept ==
    [][(UpdateStep /\ HasExplicitNull(contacts_data[idx])) =>
         LET cd == contacts_data[idx]
             old == RowOf(store, cd.id.n)
             new == RowOf(store', cd.id.n)
         IN /\ \A f \in ClearableFields : new[f] = FetchedValue(cd, f)
            /\ \A f \in ClearableFields : cd[RemoteKey(f)] = JNull => new[f] = JNull
            /\ new.name = IF Get(cd, "name") = JNull THEN old.name
                          ELSE Get(cd, "name")]_vars

C5_Witness ==
    /\ pc = "reconciling"
    /\ idx = 2
    /\ RecordErrors = 0
    /\ contacts_data[1] = ClearingContact(JInt(1))
    /\ \E r \in storeAtStart : r.odoo_id = 1 /\ r.email = JStr("ann@x.org")
    /\ \E r \in store :
          r.odoo_id = 1 /\ r.email = JNull /\ r.phone = JStr("222")
            /\ r.name = JStr("Bob")

(***************************************************************************)
(* C6: every row written from a record has for country the second element *)
(* of the record's country_id when that is a pair, and null when it is     *)
(* false, null or absent.                                                  *)
(***************************************************************************)
C6_CountryDecoding ==
    [][WriteStep =>
         LET cd == contacts_data[idx]
             c == cd.country_id
             new == RowOf(store', cd.id.n)
         IN /\ (c.k = "list" /\ Len(c.items) = 2) => new.country = c.items[2]
            /\ c \in {JBool(FALSE), JNull, Absent} => new.country = JNull]_vars

C6_Witness ==
    /\ pc = "done"
    /\ contacts_data = <<FullContact(JInt(1)), ClearingContact(JInt(2))>>
    /\ RecordErrors = 0
    /\ RowOf(store, 1).country = JStr("Italy")
    /\ RowOf(store, 2).country = JNull

(***************************************************************************)
(* C7: a login whose result is false fails the run with no write and no    *)
(* fetch request, and logs an error other than the one logged for the      *)
(* falsy results null, 0 and "".                                           *)
(***************************************************************************)
C7_FalseUidDistinguished ==
    (parsed_response.type = "Ok" /\ ~Truthy(parsed_response.result)) =>
        /\ pc = "failed"
        /\ NoWrites
        /\ idx = 1
        /\ requests = <<LoginRequest>>
        /\ log[Len(log)].level = "error"
        /\ (parsed_response.result = JBool(FALSE))
              <=> (log[Len(log)].event = "auth_false_uid")
        /\ (parsed_response.result \in {JNull, JInt(0), JStr("")})
              <=> (log[Len(log)].event = "auth_falsy_uid")

C7_Witness ==
    /\ pc = "failed"
    /\ parsed_response = Ok(JBool(FALSE))
    /\ storeAtStart # {}
    /\ log[Len(log)].event = "auth_false_uid"

(***************************************************************************)
(* C8: when one of the four settings is unset or empty, the run logs the   *)
(* configuration error and returns with no request sent and no write.      *)
(***************************************************************************)
C8_MissingSettingStopsRun ==
    (pc # "idle" /\ \E n \in SettingNames : settings[n] \in {JNull, JStr("")}) =>
        /\ pc = "failed"
        /\ requests = <<>>
        /\ responses = <<>>
        /\ log = <<Info("start", JNull), Error("not_configured", JNull)>>
        /\ NoWrites

C8_Witness ==
    /\ pc = "failed"
    /\ settings = [AllSet EXCEPT !["ODOO_PASSWORD"] = JStr("")]
    /\ storeAtStart # {}

(***************************************************************************)
(* C9: a fetch that succeeds with an empty list is a success: the run goes *)
(* on to the summary with 0 created and 0 updated and the rows that were   *)
(* there stay as they were.                                                *)
(***************************************************************************)
EmptyListFetched ==
    /\ Len(responses) = 2
    /\ responses[2].t = "http"
    /\ ~RaisesForStatus(responses[2].status)
    /\ responses[2].body = ResultBody(JList(<<>>))

C9_EmptyFetchIsSuccess ==
    EmptyListFetched =>
        /\ pc \in {"reconciling", "done"}
        /\ store = storeAtStart
        /\ \E i \in 1..Len(log) : log[i] = Info("fetch_ok", JInt(0))
        /\ \A i \in 1..Len(log) : log[i].event # "fetch_error"
        /\ pc = "reconciling" => ENABLED Complete
        /\ pc = "done" =>
              log[Len(log)] = Info("complete", JList(<<JInt(0), JInt(0)>>))

C9_Witness ==
    /\ EmptyListFetched
    /\ pc = "done"
    /\ storeAtStart # {}
    /\ store = storeAtStart

(***************************************************************************)
(* C10: a configuration error, a timeout, a connection failure, a body     *)
(* that cannot be parsed, an error envelope, or a falsy uid on login fails *)
(* the run, and a failed run leaves the table as it was when the run       *)
(* started.                                                                *)
(***************************************************************************)
FailsBeforeReconciliation ==
    \/ ~AllConfigured(settings)
    \/ \E i \in 1..Len(responses) :
          \/ responses[i].t \in {"timeout", "connection"}
          \/ /\ responses[i].t = "http"
             /\ responses[i].body.b \in {"empty", "malformed", "error"}
    \/ /\ Len(responses) >= 1
       /\ responses[1].t = "http"
       /\ responses[1].body.b = "result"
       /\ ~Truthy(responses[1].body.result)

C10_FailedRunLeavesStore ==
    /\ (pc # "idle" /\ FailsBeforeReconciliation) => pc = "failed"
    /\ pc = "failed" => (NoWrites /\ idx = 1 /\ contacts_data = <<>>)

C10_Witness ==
    /\ pc = "failed"
    /\ storeAtStart # {}
    /\ Len(responses) = 2
    /\ responses[2] = HttpOutcome(200, ErrorBody(JStr("Access Denied"), JStr("trace")))

(***************************************************************************)
(* C11: a response with a 2xx status whose body is no JSON-RPC envelope    *)
(* ends _make_odoo_request in its processing-error branch: the run fails   *)
(* with that log entry last, with no authentication or fetch error logged, *)
(* and with no write.                                                      *)
(***************************************************************************)
UnparsableSuccess(outcome) ==
    /\ outcome.t = "http"
    /\ ~RaisesForStatus(outcome.status)
    /\ outcome.body \in {EmptyBody, MalformedBody}

C11_UnparsableBodyIsProcessingError ==
    (responses # <<>> /\ UnparsableSuccess(responses[Len(responses)])) =>
        /\ pc = "failed"
        /\ log[Len(log)] = Error("processing_error", JNull)
        /\ \A i \in 1..Len(log) :
              log[i].event \notin {"auth_error", "auth_false_uid",
                                   "auth_falsy_uid", "fetch_error"}
        /\ NoWrites

C11_Witness ==
    /\ pc = "failed"
    /\ storeAtStart # {}
    /\ Len(responses) = 2
    /\ responses[2] = HttpOutcome(200, MalformedBody)
    /\ log[Len(log)].event = "processing_error"

(***************************************************************************)
(* C13: in every reachable state the table holds at most one row for each  *)
(* odoo_id, also when one fetched list carries the same id twice and when  *)
(* the id was written by an earlier run.                                   *)
(***************************************************************************)
C13_OneRowPerOdooId ==
    \A r1 \in store : \A r2 \in store :
        r1.odoo_id = r2.odoo_id => r1 = r2

C13_Witness ==
    /\ pc = "reconciling"
    /\ idx = 3
    /\ contacts_data[1].id = JInt(1)
    /\ contacts_data[2].id = JInt(1)
    /\ contacts_data[1] # contacts_data[2]
    /\ writtenIds = {1}
    /\ RowsWithId(storeAtStart, 1) # {}
    /\ Cardinality(RowsWithId(store, 1)) = 1

(***************************************************************************)
(* C15: no step deletes a row: the set of odoo_ids in the table after a    *)
(* step contains the set before it, and the number of rows does not drop.  *)
(***************************************************************************)
StoredIds(table) == {r.odoo_id : r \in table}

C15_RowsNeverDeleted ==
    [][/\ StoredIds(store) \subseteq StoredIds(store')
       /\ Cardinality(store') >= Cardinality(store)]_vars

C15_Witness ==
    /\ pc = "done"
    /\ Len(contacts_data) = MaxBatch
    /\ StoredIds(storeAtStart) = {1}
    /\ StoredIds(store) = {1, 2}
    /\ 1 \notin IdsOf(contacts_data)

(***************************************************************************)
(* C16 as stated: the defaults passed to update_or_create always hold all  *)
(* seven mapped fields, and an update overwrites each of the seven with    *)
(* the mapped value, null included.                                        *)
(***************************************************************************)
C16_AllSevenOverwritten ==
    [][UpdateStep =>
         LET cd == contacts_data[idx]
             new == RowOf(store', cd.id.n)
         IN /\ DOMAIN defaults_of(cd) = MappedFields
            /\ \A f \in MappedFields : new[f] = FetchedValue(cd, f)]_vars

(***************************************************************************)
(* C16 amended: the defaults always hold the six fields other than name,   *)
(* and an update overwrites each of the six with the mapped value, null    *)
(* included; name is in the defaults, and overwritten, only when the       *)
(* fetched name is not null, and the row keeps its name otherwise.         *)
(***************************************************************************)
C16_SixOverwrittenNameWhenGiven ==
    [][UpdateStep =>
         LET cd == contacts_data[idx]
             old == RowOf(store, cd.id.n)
             new == RowOf(store', cd.id.n)
             given == FetchedValue(cd, "name") # JNull
         IN /\ DOMAIN defaults_of(cd)
                 = ClearableFields \cup (IF given THEN {"name"} ELSE {})
            /\ \A f \in ClearableFields : new[f] = FetchedValue(cd, f)
            /\ given => new.name = FetchedValue(cd, "name")
            /\ ~given => new.name = old.name]_vars

C16_Witness ==
    /\ pc = "reconciling"
    /\ idx = 2
    /\ RecordErrors = 0
    /\ contacts_data[1] = NamelessContact(JInt(1))
    /\ \E r \in storeAtStart :
          r.odoo_id = 1 /\ r.name = JStr("Ann") /\ r.phone = JStr("111")
    /\ \E r \in store :
          r.odoo_id = 1 /\ r.name = JStr("Ann") /\ r.phone = JNull
            /\ r.email = JStr("cy@x.org") /\ r.country = JNull

(***************************************************************************)
(* C12: a run that has entered reconciliation leaves it only by reaching   *)
(* Done: every step taken while reconciling stays in reconciliation or     *)
(* logs the completion summary, whatever happens with a single record.     *)
(***************************************************************************)
C12_ReconciliationReachesDone ==
    [][pc = "reconciling" => pc' \in {"reconciling", "done"}]_vars

(***************************************************************************)
(* C17: a record whose write fails (a database error, or no id key) is     *)
(* caught: the failure is logged, neither counter moves, the table keeps   *)
(* the rows written before, and the loop goes on to the next record.  A    *)
(* completed run whose only failures are the records without id has        *)
(* written every other record.                                             *)
(***************************************************************************)
\* the record under the loop cannot be written: it has no id key
WriteMustFail ==
    /\ pc = "reconciling"
    /\ idx <= Len(contacts_data)
    /\ IsDict(contacts_data[idx])
    /\ contacts_data[idx].id = Absent

\* this step handles a record that has the dict interface
RecordStep ==
    /\ pc = "reconciling"
    /\ idx <= Len(contacts_data)
    /\ IsDict(contacts_data[idx])

\* the effect of a write that failed and was caught
SkippedEffect ==
    /\ log' = Append(log, Error("record_error", Get(contacts_data[idx], "id")))
    /\ synced_count' = synced_count
    /\ updated_count' = updated_count
    /\ store' = store
    /\ pc' = "reconciling"
    /\ idx' = idx + 1

MissingIds(data) == {i \in 1..Len(data) : IsDict(data[i]) /\ data[i].id = Absent}

C17_FailedWriteIsSkipped ==
    /\ [][RecordStep =>
            \/ SkippedEffect
            \/ WriteStep /\ pc' = "reconciling" /\ ~WriteMustFail]_vars
    /\ []((pc = "done" /\ RecordErrors = Cardinality(MissingIds(contacts_data))) =>
            /\ IdsOf(contacts_data) \subseteq StoredIds(store)
            /\ synced_count + updated_count + RecordErrors = Len(contacts_data))

C17_Witness ==
    /\ pc = "done"
    /\ contacts_data = <<FullContact(Absent), ClearingContact(JInt(1))>>
    /\ RecordErrors = 1
    /\ synced_count = 1
    /\ updated_count = 0
    /\ \E r \in storeAtStart : r.odoo_id = 2 /\ r \in store
    /\ \E r \in store : r.odoo_id = 1 /\ r.name = JStr("Bob")

(***************************************************************************)
(* C18 as stated: a record is counted created exactly when no row with its *)
(* id existed at the moment of its upsert and updated otherwise, and when  *)
(* one id occurs more than once in a batch the row ends with the values of *)
(* the last occurrence.                                                    *)
(***************************************************************************)
Occurrences(data, odoo_id) ==
    {i \in 1..Len(data) : IsDict(data[i]) /\ data[i].id = JInt(odoo_id)}

Last(S) == CHOOSE i \in S : \A j \in S : j <= i

\* a written record is counted created iff its id had no row
CountedByExistence ==
    [][WriteStep =>
         IF RowsWithId(store, contacts_data[idx].id.n) = {}
         THEN synced_count' = synced_count + 1 /\ updated_count' = updated_count
         ELSE synced_count' = synced_count /\ updated_count' = updated_count + 1]_vars

C18_CountedAndLastOccurrenceWins ==
    /\ CountedByExistence
    /\ []((pc = "done" /\ RecordErrors = 0) =>
            \A i \in IdsOf(contacts_data) :
               LET last == contacts_data[Last(Occurrences(contacts_data, i))]
               IN \A f \in MappedFields :
                     RowOf(store, i)[f] = FetchedValue(last, f))

(***************************************************************************)
(* C18 amended: counting as stated; the row ends with the values of the    *)
(* last occurrence in the six fields other than name, and with the name of *)
(* the last occurrence that carries a name; when no occurrence carries one *)
(* the row keeps the name it had, or the empty string if it was created.   *)
(***************************************************************************)
C18_CountedAndLastGivenNameWins ==
    /\ CountedByExistence
    /\ []((pc = "done" /\ RecordErrors = 0) =>
            \A i \in IdsOf(contacts_data) :
               LET occ == Occurrences(contacts_data, i)
                   last == contacts_data[Last(occ)]
                   named == {j \in occ :
                                FetchedValue(contacts_data[j], "name") # JNull}
                   row == RowOf(store, i)
               IN /\ \A f \in ClearableFields : row[f] = FetchedValue(last, f)
                  /\ row.name =
                       IF named # {}
                       THEN FetchedValue(contacts_data[Last(named)], "name")
                       ELSE IF RowsWithId(storeAtStart, i) # {}
                       THEN RowOf(storeAtStart, i).name
                       ELSE JStr(""))

C18_Witness ==
    /\ pc = "done"
    /\ contacts_data = <<FullContact(JInt(1)), NamelessContact(JInt(1))>>
    /\ storeAtStart = {}
    /\ RecordErrors = 0
    /\ synced_count = 1
    /\ updated_count = 1
    /\ \E r \in store :
          r.odoo_id = 1 /\ r.name = JStr("Ann") /\ r.email = JStr("cy@x.org")
            /\ r.city = JNull

(***************************************************************************)
(* C20: nothing is retried.  A run sends at most one login request and at  *)
(* most one fetch request, in that order, each answered at most once, and  *)
(* after a request has failed (no response, a status >= 400, or a body     *)
(* that is no success envelope) the run sends no further request.          *)
(***************************************************************************)
RequestFailed(outcome) ==
    \/ outcome.t # "http"
    \/ RaisesForStatus(outcome.status)
    \/ outcome.body.b # "result"

C20_NoRetry ==
    /\ Len(requests) <= 2
    /\ Len(responses) <= Len(requests)
    /\ (Len(requests) >= 1 => requests[1] = LoginRequest)
    /\ (Len(requests) = 2 => requests[2].rpc = "call")
    /\ ((Len(responses) >= 1 /\ RequestFailed(responses[1])) =>
            Len(requests) = 1)

(***************************************************************************)
(* C19: a fetch request exists only when the login response of the same    *)
(* run carried a success envelope with a truthy result, and it carries     *)
(* exactly that result as uid; between runs and until the login is         *)
(* answered no uid is held.                                                *)
(***************************************************************************)
C19_FetchCarriesLoginUid ==
    /\ (Len(requests) = 2 =>
          /\ Len(responses) >= 1
          /\ responses[1].t = "http"
          /\ responses[1].body.b = "result"
          /\ Truthy(responses[1].body.result)
          /\ requests[2] = [rpc |-> "call", service |-> "object",
                            uid |-> responses[1].body.result]
          /\ parsed_response = Ok(responses[1].body.result)
          /\ uid = responses[1].body.result)
    /\ (pc \in {"idle", "authenticating"} =>
          uid = JNull /\ Len(requests) <= 1 /\ responses = <<>>)

C19_Witness ==
    /\ pc = "fetching"
    /\ lastRun # NoRun
    /\ store # {}
    /\ Len(requests) = 2
    /\ requests[2].uid = JInt(456)
    /\ Len(responses) = 1

(***************************************************************************)
(* C14: every write of a row, a create or an update, sets its last_synced  *)
(* to the clock reading of that write, also when no other field changes,   *)
(* and leaves every other row as it was; compared with the table at the    *)
(* start of the run, a row the run has written has a strictly greater      *)
(* last_synced and a row it has not written is unchanged.                  *)
(***************************************************************************)
\* ids of the records the loop has gone through
TouchedIds == IdsOf(SubSeq(contacts_data, 1, idx - 1))

\* against the table at the start of the run
LaterWhereTouched ==
    \A r0 \in storeAtStart :
        LET r == RowOf(store, r0.odoo_id)
        IN IF pc \in {"reconciling", "done"} /\ r0.odoo_id \in TouchedIds
           THEN r.last_synced > r0.last_synced
           ELSE r = r0

C14_LastSyncedIsWriteTime ==
    [][/\ WriteStep =>
            LET i == contacts_data[idx].id.n
            IN /\ RowOf(store', i).last_synced = now
               /\ \A r \in store : r.odoo_id # i => r \in store'
       /\ LaterWhereTouched']_vars

C14_Witness ==
    /\ pc = "done"
    /\ contacts_data = <<FullContact(JInt(1))>>
    /\ \E r0 \in storeAtStart : \E r \in store :
          /\ r0.odoo_id = 1
          /\ r.odoo_id = 1
          /\ ContentOf({r}) = ContentOf({r0})
          /\ r.last_synced = now
          /\ r.last_synced > r0.last_synced
    /\ \E r \in store : r.odoo_id = 2 /\ r \in storeAtStart

(***************************************************************************)
(* C23: a response with a status >= 400 whose body is a JSON-RPC error     *)
(* envelope makes _make_odoo_request return the parsed error, and do()     *)
(* reports it as the authentication failure or the fetch failure with the  *)
(* envelope's message and data; when the body does not parse the result is *)
(* the bare HTTP failure: None, and no such report.                        *)
(***************************************************************************)
LastResponse == responses[Len(responses)]

HttpFailure(outcome) == outcome.t = "http" /\ RaisesForStatus(outcome.status)

\* the report do() makes of an error envelope at the step the run is in
FailureReport(body) ==
    Error(IF Len(responses) = 1 THEN "auth_error" ELSE "fetch_error",
          JList(<<body.message, body.data>>))

C23_ErrorEnvelopeTakesPrecedence ==
    (responses # <<>> /\ HttpFailure(LastResponse)) =>
        LET body == LastResponse.body
            returned == _make_odoo_request(LastResponse).ret
        IN /\ body.b = "error" =>
                /\ returned = RpcError(body.message, body.data)
                /\ pc = "failed"
                /\ log[Len(log)] = FailureReport(body)
                /\ log[Len(log) - 1] = Error("http_error", JInt(LastResponse.status))
                /\ (Len(responses) = 1 => parsed_response = returned)
           /\ body \in {EmptyBody, MalformedBody} =>
                /\ returned = None
                /\ pc = "failed"
                /\ log[Len(log)].event \in {"http_error", "unparsable_error_body"}
                /\ \A i \in 1..Len(log) :
                      log[i].event \notin {"auth_error", "fetch_error"}
                /\ (Len(responses) = 1 => parsed_response = None)

C23_Witness ==
    /\ pc = "failed"
    /\ Len(responses) = 2
    /\ responses[2] = HttpOutcome(500, ErrorBody(JStr("Access Denied"), JStr("trace")))
    /\ log[Len(log)]
         = Error("fetch_error", JList(<<JStr("Access Denied"), JStr("trace")>>))
    /\ store = storeAtStart

(***************************************************************************)
(* C22: a run ends in one of two ways: Done, with the completion summary   *)
(* logged, or Failed, with at least one error-level log entry and no       *)
(* completion summary; this for every configuration and every pair of      *)
(* responses, a fetch result that is not a list included.                  *)
(***************************************************************************)
RunEnded == pc \notin {"idle", "authenticating", "fetching", "reconciling"}

LoggedErrors == {i \in 1..Len(log) : log[i].level = "error"}

SummaryLogged == \E i \in 1..Len(log) : log[i].event = "complete"

C22_RunEndsDoneOrFailed ==
    RunEnded =>
        \/ pc = "done" /\ SummaryLogged
        \/ pc = "failed" /\ LoggedErrors # {} /\ ~SummaryLogged

(***************************************************************************)
(* C21 as stated: when two overlapping invocations have both upserted a    *)
(* remote id, under every interleaving of their writes the table holds     *)
(* exactly one row for the id, and all seven field values of that row are  *)
(* those one of the two runs writes on its own (a null name read as the    *)
(* empty name such a run creates a row with), never a mixture.             *)
(***************************************************************************)
\* data[from..] up to position upto - 1 has written i and holds no further i
WroteAll(data, upto, i) ==
    /\ i \in IdsOf(SubSeq(data, 1, upto - 1))
    /\ i \notin IdsOf(SubSeq(data, upto, Len(data)))

\* both invocations are through with their records for i
BothWrote(i) ==
    /\ pc \in {"reconciling", "done"}
    /\ rival.pc \in {"reconciling", "done"}
    /\ WroteAll(contacts_data, idx, i)
    /\ WroteAll(rival.contacts_data, rival.idx, i)

\* the record a run wrote last for i
LastRecord(data, i) == data[Last(Occurrences(data, i))]

\* the value a run alone leaves in field f of a row it creates from the record
OwnValue(contact_data, f) ==
    IF f = "name" /\ FetchedValue(contact_data, f) = JNull
    THEN JStr("")
    ELSE FetchedValue(contact_data, f)

C21_RowFromOneRun ==
    \A i \in Ids :
        BothWrote(i) =>
            /\ Cardinality(RowsWithId(store, i)) = 1
            /\ \E data \in {contacts_data, rival.contacts_data} :
                  \A f \in MappedFields :
                     RowOf(store, i)[f] = OwnValue(LastRecord(data, i), f)

(***************************************************************************)
(* C21 amended: exactly one row for the id; its six fields other than name *)
(* are all those mapped by one of the two runs, and its name is that run's *)
(* name unless that is null: then the row has the name it had before that  *)
(* run's write, which the other run may have written.                      *)
(***************************************************************************)
C21_SixFieldsFromOneRun ==
    \A i \in Ids :
        BothWrote(i) =>
            /\ Cardinality(RowsWithId(store, i)) = 1
            /\ \E data \in {contacts_data, rival.contacts_data} :
                  LET last == LastRecord(data, i)
                  IN /\ \A f \in ClearableFields :
                           RowOf(store, i)[f] = FetchedValue(last, f)
                     /\ FetchedValue(last, "name") # JNull =>
                           RowOf(store, i).name = FetchedValue(last, "name")
            /\ RowOf(store, i).name # JNull

C21_Witness ==
    /\ pc = "reconciling"
    /\ rival.pc = "reconciling"
    /\ contacts_data = <<FullContact(JInt(1))>>
    /\ rival.contacts_data = <<NamelessContact(JInt(1))>>
    /\ storeAtStart = {}
    /\ BothWrote(1)
    /\ synced_count = 1
    /\ rival.updated_count = 1
    /\ RowOf(store, 1).name = JStr("Ann")
    /\ RowOf(store, 1).email = JStr("cy@x.org")

====
